---- MODULE Spec2Model ----
(***************************************************************************)
(* Workflow graph runtime of the WorkflowBuilder component:                *)
(* graph store (nodes, edges), clipboard/undo, the run scheduler           *)
(* (onRunWorkflow / executeNode / onStopWorkflow), the tool execution      *)
(* (handleToolExecution) and the input adapter                             *)
(* (getInputFromPredecessorNode).                                          *)
(*                                                                         *)
(* One step of the model is one macrotask of the browser's event loop: a   *)
(* keyboard or button handler, a timer callback up to its first await of   *)
(* a timer or of the network, or the continuation after such an await.     *)
(* React commits the state updates of a macrotask before the next one      *)
(* runs, and the effect of line 240 then copies nodes and edges into       *)
(* nodesRef and edgesRef, so at the start of every step nodesRef.current   *)
(* and edgesRef.current are the variables nodes and edges.                 *)
(***************************************************************************)
EXTENDS Integers, Sequences, FiniteSets, TLC

VARIABLES
  nodes,                  \* useNodesState: sequence of node records
  edges,                  \* useEdgesState: sequence of edge records
  selection,              \* ids of selection.nodes
  copyBuffer,             \* NoBuffer or [nodes, edges]
  lastAction,             \* NoAction or [type, nodes, edges]
  redoAction,             \* NoAction or [type, nodes, edges]
  idCounter,              \* idCounter.current
  runningWorkflow,        \* the scheduler is running (TRUE) or idle (FALSE)
  workflowExecutionRefs,  \* 0: the empty array; r: the timeoutIdsStore of run r
  timers,                 \* pending window.setTimeout executions, in creation order
  tasks,                  \* executions whose timer fired and that have not finished
  runCount,               \* number of runs that scheduled roots so far
  stoppedRuns,            \* history: the runs that onStopWorkflow stopped
  log,                    \* history: executions started, tools invoked, children scheduled
  lastOp,                 \* history: the last step taken
  lastCmd,                \* history: the last Run or Stop command and what it found
  opCount,                \* history: the number of editing commands since the initial state
  recent,                 \* history: the cut or paste just done, undone or redone
  saved                   \* the document onSaveWorkflow wrote last, and the graph it saved

vars == <<nodes, edges, selection, copyBuffer, lastAction, redoAction, idCounter,
          runningWorkflow, workflowExecutionRefs, timers, tasks, runCount,
          stoppedRuns, log, lastOp, lastCmd, opCount, recent, saved>>

-----------------------------------------------------------------------------
(* Bounds of the model *)

MaxNodes == 3
MaxId == 4
MaxRuns == 2
MaxEdges == 3
MaxOps == 6

-----------------------------------------------------------------------------
(* Sequence helpers *)

Range(s) == {s[i] : i \in 1..Len(s)}

\* ns.map(n => n.id === id ? { ...n, data: { ...n.data, status: st } } : n)
SetStatus(ns, id, st) ==
  [i \in 1..Len(ns) |-> IF ns[i].id = id THEN [ns[i] EXCEPT !.status = st] ELSE ns[i]]

\* ns.map(n => ({ ...n, data: { ...n.data, status: st } }))
SetAllStatus(ns, st) == [i \in 1..Len(ns) |-> [ns[i] EXCEPT !.status = st]]

\* ns.map(n => n.id === id ? { ...n, data: { ...n.data, sessionId } } : n)
SetSession(ns, id) ==
  [i \in 1..Len(ns) |-> IF ns[i].id = id THEN [ns[i] EXCEPT !.sessionId = TRUE] ELSE ns[i]]

\* ns.map(n => n.id === id ? { ...n, data: { ...n.data, status, output, sessionId } } : n)
SetResult(ns, id, st, out) ==
  [i \in 1..Len(ns) |->
     IF ns[i].id = id
     THEN [ns[i] EXCEPT !.status = st, !.output = out, !.sessionId = TRUE]
     ELSE ns[i]]

RECURSIVE Join(_, _)
\* Array.prototype.join
Join(ss, sep) ==
  IF ss = <<>> THEN ""
  ELSE IF Len(ss) = 1 THEN ss[1]
  ELSE ss[1] \o sep \o Join(Tail(ss), sep)

\* Array.prototype.find on a sequence of records with an id: the first index, or 0
FindIndex(ns, id) ==
  IF \E i \in 1..Len(ns) : ns[i].id = id
  THEN CHOOSE i \in 1..Len(ns) : ns[i].id = id /\ \A j \in 1..(i - 1) : ns[j].id # id
  ELSE 0

Ids(ns) == {ns[i].id : i \in 1..Len(ns)}

-----------------------------------------------------------------------------
(* Tool types, outputs, values *)

ToolTypes == {"Source Finder", "Contradiction Checker", "Data Analysis", "Claim Extractor",
              "AI Literature Review", "Reference & Citation Management", "Export TXT",
              "Export DOC"}

\* tool.replace(/\s+/g, '')
StripSpaces(tool) ==
  CASE tool = "Source Finder" -> "SourceFinder"
    [] tool = "AI Literature Review" -> "AILiteratureReview"
    [] tool = "Reference & Citation Management" -> "Reference&CitationManagement"
    [] tool = "Claim Extractor" -> "ClaimExtractor"
    [] tool = "Contradiction Checker" -> "ContradictionChecker"
    [] tool = "Export TXT" -> "ExportTXT"
    [] tool = "Export DOC" -> "ExportDOC"
    [] tool = "Data Analysis" -> "DataAnalysis"
    [] OTHER -> tool

Terminal == {"success", "error"}

\* A node's data.output. defined: the field is set; isStr: the output is a bare
\* string (str); otherwise an object with the keys in keys.
NoOutput ==
  [defined |-> FALSE, isStr |-> FALSE, str |-> "", keys |-> {}, papers |-> <<>>,
   claims |-> <<>>, review |-> "", text |-> "", error |-> "", message |-> "",
   content |-> "", fileName |-> ""]

ObjOutput(ks) == [NoOutput EXCEPT !.defined = TRUE, !.keys = ks]

PapersOutput(ps) == [ObjOutput({"papers"}) EXCEPT !.papers = ps]
ClaimsOutput(cs) == [ObjOutput({"claims"}) EXCEPT !.claims = cs]
ReviewOutput(r) == [ObjOutput({"review"}) EXCEPT !.review = r]
TextOutput(t) == [ObjOutput({"text"}) EXCEPT !.text = t]
MessageOutput(m) == [ObjOutput({"message"}) EXCEPT !.message = m]
StringOutput(s) == [NoOutput EXCEPT !.defined = TRUE, !.isStr = TRUE, !.str = s]
\* A write-back of the thrown message as a bare string
ErrorOutputAsString(msg) == StringOutput(msg)

\* { error: message }
ErrorOutput(msg) == [ObjOutput({"error"}) EXCEPT !.error = msg]

\* JavaScript truthiness of data.output
Truthy(out) == out.defined /\ (out.isStr => out.str # "")

\* A value handed to a tool, or returned by the adapter: null, a string or a list
NullVal == [kind |-> "null", str |-> "", list |-> <<>>]
StrVal(s) == [kind |-> "str", str |-> s, list |-> <<>>]
\* A list value cut down to its first element
ListValFirstOnly(l) == [kind |-> "list", str |-> "", list |-> IF l = <<>> THEN l ELSE <<l[1]>>]
ListVal(l) == [kind |-> "list", str |-> "", list |-> l]

Paper1 == [title |-> "T1", authors |-> <<"A", "B">>, published |-> "2020"]
Paper2 == [title |-> "T2", authors |-> <<"C">>, published |-> ""]

\* `${p.title}. ${Array.isArray(p.authors) ? p.authors.join(', ') : ''} (${p.published || ''})`
PaperLine(p) == p.title \o ". " \o Join(p.authors, ", ") \o " (" \o p.published \o ")"

RECURSIVE PaperLines(_)
PaperLines(ps) == IF ps = <<>> THEN <<>> ELSE <<PaperLine(Head(ps))>> \o PaperLines(Tail(ps))

RECURSIVE QuoteAll(_)
QuoteAll(ss) == IF ss = <<>> THEN <<>> ELSE <<"\"" \o Head(ss) \o "\"">> \o QuoteAll(Tail(ss))

RECURSIVE PaperJson(_)
PaperJson(ps) ==
  IF ps = <<>> THEN <<>>
  ELSE <<"{\"title\": \"" \o Head(ps).title \o "\", \"authors\": ["
         \o Join(QuoteAll(Head(ps).authors), ", ") \o "], \"published\": \""
         \o Head(ps).published \o "\"}">> \o PaperJson(Tail(ps))

\* JSON.stringify(output, null, 2) of an object output, key by key
Stringify(out) ==
  LET field(k, v) == IF k \in out.keys THEN <<"  \"" \o k \o "\": " \o v>> ELSE <<>>
      parts == field("papers", "[" \o Join(PaperJson(out.papers), ", ") \o "]")
               \o field("claims", "[" \o Join(QuoteAll(out.claims), ", ") \o "]")
               \o field("review", "\"" \o out.review \o "\"")
               \o field("text", "\"" \o out.text \o "\"")
               \o field("error", "\"" \o out.error \o "\"")
               \o field("content", "\"" \o out.content \o "\"")
               \o field("message", "\"" \o out.message \o "\"")
               \o field("fileName", "\"" \o out.fileName \o "\"")
  IN IF parts = <<>> THEN "{}" ELSE "{\n" \o Join(parts, ",\n") \o "\n}"

-----------------------------------------------------------------------------
(* Nodes and edges *)

EmptyConfig == [prompt |-> "", referencesInput |-> ""]

\* The node that onDrop, a preset, a loaded document or a generated workflow
\* creates. onRun is the id that createOnRunCallback was given: the callback
\* ignores its argument and runs that id.
MakeNode(id, tool, config, onRun) ==
  [id |-> id, toolType |-> tool, config |-> config, status |-> "pending",
   output |-> NoOutput, sessionId |-> FALSE, onRun |-> onRun]

MakeEdge(id, s, t) == [id |-> id, source |-> s, target |-> t]

NoBuffer == [set |-> FALSE, nodes |-> <<>>, edges |-> <<>>]
NoAction == [type |-> "none", nodes |-> <<>>, edges |-> <<>>]

\* ns.filter(n => ids.includes(n.id))
NodesIn(ns, ids) == SelectSeq(ns, LAMBDA n : n.id \in ids)
\* ns.filter(n => !ids.includes(n.id))
NodesNotIn(ns, ids) == SelectSeq(ns, LAMBDA n : n.id \notin ids)
\* es.filter(e => ids.includes(e.source) && ids.includes(e.target))
EdgesWithin(es, ids) == SelectSeq(es, LAMBDA e : e.source \in ids /\ e.target \in ids)
\* A filter that would keep the edges whose target alone is among ids
EdgesAvoidingAsSource(es, ids) == SelectSeq(es, LAMBDA e : e.source \notin ids)
\* es.filter(e => !ids.includes(e.source) && !ids.includes(e.target))
EdgesAvoiding(es, ids) == SelectSeq(es, LAMBDA e : e.source \notin ids /\ e.target \notin ids)
\* es.filter(e => !edgeIds.includes(e.id))
EdgesNotIds(es, edgeIds) == SelectSeq(es, LAMBDA e : e.id \notin edgeIds)

-----------------------------------------------------------------------------
(* The input adapter and the tool request *)

\* getInputFromPredecessorNode
GetInputFromPredecessorNode(nodeId, currentEdges, currentNodes, toolTypeForContext) ==
  LET e == FindIndex([i \in 1..Len(currentEdges) |-> [id |-> currentEdges[i].target]], nodeId)
      p == IF e = 0 THEN 0 ELSE FindIndex(currentNodes, currentEdges[e].source)
  IN IF p = 0 \/ ~Truthy(currentNodes[p].output) THEN NullVal
     ELSE LET output == currentNodes[p].output
              predToolType == currentNodes[p].toolType
          IN IF toolTypeForContext = "AI Literature Review" /\ "papers" \in output.keys
             THEN ListVal(output.papers)
             ELSE IF "papers" \in output.keys /\ predToolType = "Source Finder"
             THEN StrVal(Join(PaperLines(output.papers), "\n"))
             ELSE IF "claims" \in output.keys
                     /\ predToolType \in {"Claim Extractor", "Contradiction Checker"}
             THEN StrVal(Join(output.claims, "\n---\n"))
             ELSE IF "review" \in output.keys /\ output.review # ""
             THEN StrVal(output.review)
             ELSE IF "text" \in output.keys /\ output.text # ""
             THEN StrVal(output.text)
             ELSE IF output.isStr THEN StrVal(output.str)
             ELSE StrVal(Stringify(output))

\* typeof extractedInput === 'string' ? extractedInput : ''
StringOrEmpty(v) == IF v.kind = "str" THEN v.str ELSE ""

\* a || b on strings
OrElse(a, b) == IF a # "" THEN a ELSE b

NoRequest == [throws |-> FALSE, msg |-> "", payload |-> NullVal]
Request(v) == [NoRequest EXCEPT !.payload = v]
Throw(m) == [NoRequest EXCEPT !.throws = TRUE, !.msg = m]

\* handleToolExecution, the switch on toolType up to the call: what is sent to
\* the tool, or the Error thrown before any call is made
ToolRequest(node, currentEdges, currentNodes) ==
  LET config == node.config
      extractedInput == GetInputFromPredecessorNode(node.id, currentEdges, currentNodes, "")
      inputText == OrElse(config.prompt, StringOrEmpty(extractedInput))
  IN CASE node.toolType = "Source Finder" -> Request(StrVal(config.prompt))
       [] node.toolType = "Claim Extractor" ->
            IF inputText = ""
            THEN Throw("Claim Extractor requires an input prompt or a connection providing text output.")
            ELSE Request(StrVal(inputText))
       [] node.toolType = "Contradiction Checker" ->
            IF inputText = ""
            THEN Throw("Contradiction Checker requires an input prompt or connection with text/claims output.")
            ELSE Request(StrVal(inputText))
       [] node.toolType = "AI Literature Review" ->
            LET predecessorOutput == GetInputFromPredecessorNode(
                    node.id, currentEdges, currentNodes, "AI Literature Review")
            IN Request(ListVal(IF predecessorOutput.kind = "list"
                               THEN predecessorOutput.list ELSE <<>>))
       [] node.toolType = "Reference & Citation Management" ->
            Request(StrVal(OrElse(config.referencesInput, StringOrEmpty(extractedInput))))
       [] node.toolType \in {"Export TXT", "Export DOC"} ->
            Request(StrVal(IF extractedInput.kind = "str" /\ extractedInput.str # ""
                           THEN extractedInput.str ELSE config.prompt))
       [] OTHER -> Throw("Unknown or unhandled tool type: " \o node.toolType)

\* What a tool call can return: a response body, or a failure that
\* fetchApiAndParse (or the export branch) throws as an Error
OkResponse(body) == [ok |-> TRUE, body |-> body, msg |-> ""]
FailResponse(m) == [ok |-> FALSE, body |-> NoOutput, msg |-> m]

\* The output written on success: the parsed body, or for the export tools the
\* object the branch builds itself
SuccessOutput(tool, body) ==
  CASE tool = "Export TXT" ->
         [ObjOutput({"message", "fileName"}) EXCEPT
            !.message = "File downloaded successfully", !.fileName = "export.txt"]
    [] tool = "Export DOC" ->
         [ObjOutput({"content", "message", "fileName"}) EXCEPT
            !.content = body.str, !.message = "Export successful", !.fileName = "export.doc"]
    [] OTHER -> body

\* The body a back end answers with when all goes well
UsualBody(tool) ==
  CASE tool = "Source Finder" -> PapersOutput(<<Paper1, Paper2>>)
    [] tool = "Claim Extractor" -> ClaimsOutput(<<"c1", "c2">>)
    [] tool = "Contradiction Checker" -> ClaimsOutput(<<"c1">>)
    [] tool = "AI Literature Review" -> ReviewOutput("R")
    [] tool = "Reference & Citation Management" -> TextOutput("refs")
    [] OTHER -> StringOutput("<html>")

UsualResponses(tool) == {OkResponse(UsualBody(tool)), FailResponse("HTTP 500")}

\* Bodies of every shape the adapter distinguishes
AnyBodies ==
  {PapersOutput(<<Paper1, Paper2>>), ClaimsOutput(<<"c1", "c2">>), ReviewOutput("R"),
   TextOutput("t"), StringOutput("s"), ObjOutput({}),
   [ObjOutput({"papers", "claims", "text"}) EXCEPT
      !.papers = <<Paper1>>, !.claims = <<"c1">>, !.text = "t"]}

\* The messages of the Errors that a tool call throws: fetch rejects (network
\* error), the response is not ok, the body is not JSON
FailureMessages == {"Failed to fetch", "HTTP 500", "Invalid JSON response"}

AnyResponses == {OkResponse(b) : b \in AnyBodies} \cup {FailResponse(m) : m \in FailureMessages}

-----------------------------------------------------------------------------
(* Editing: onDrop, onConnect, selection, handleDelete, handleGlobalKey *)

schedVars == <<runningWorkflow, workflowExecutionRefs, timers, tasks, runCount,
               stoppedRuns, log, lastCmd, saved>>

Op(name) == [name |-> name]

\* A Run or Stop command: the run it started or stopped (0: none), whether the
\* stop came before any execution of that run had started (early), whether no
\* execution of another run was scheduled or unfinished then (clean), and the
\* kinds of the timers it cleared
Cmd(name, run, early, clean, cleared) ==
  [name |-> name, run |-> run, early |-> early, clean |-> clean, cleared |-> cleared]
NoCmd == Cmd("none", 0, FALSE, FALSE, {})

\* The cut or paste that the last editing commands were about. phase: "did"
\* right after it, "undone" right after the undo that followed it at once,
\* "redone" right after the redo that followed that undo at once, "none"
\* otherwise. action is the lastAction it recorded, buffer the copy buffer
\* it used, before and after the graph right before and right after it.
Recent(phase, action, buffer, before, after) ==
  [phase |-> phase, action |-> action, buffer |-> buffer, before |-> before, after |-> after]
Graph(ns, es) == [nodes |-> ns, edges |-> es]
NoRecent == Recent("none", NoAction, NoBuffer, Graph(<<>>, <<>>), Graph(<<>>, <<>>))

\* An editing command of the session, which has at most MaxOps of them
EditedAs(r) ==
  /\ opCount < MaxOps
  /\ opCount' = opCount + 1
  /\ lastOp' = Op("edit")
  /\ recent' = r

Edited == EditedAs(NoRecent)

\* onDrop: a new node named after the tool and idCounter
OnDrop(tool) ==
  /\ Len(nodes) < MaxNodes
  /\ idCounter <= MaxId
  /\ LET newId == StripSpaces(tool) \o "_" \o ToString(idCounter)
     IN nodes' = Append(nodes, MakeNode(newId, tool, EmptyConfig, newId))
  /\ idCounter' = idCounter + 1
  /\ Edited
  /\ UNCHANGED <<edges, selection, copyBuffer, lastAction, redoAction>>
  /\ UNCHANGED schedVars

\* onConnect: addEdge of the flow library appends the edge unless an edge with
\* the same source and target is already there
AddEdge(s, t, eds) ==
  IF \E i \in 1..Len(eds) : eds[i].source = s /\ eds[i].target = t
  THEN eds
  ELSE Append(eds, MakeEdge("xy-edge__" \o s \o "-" \o t, s, t))

OnConnect(s, t) ==
  /\ s \in Ids(nodes) /\ t \in Ids(nodes) /\ s # t
  /\ Len(edges) < MaxEdges
  /\ edges' = AddEdge(s, t, edges)
  /\ Edited
  /\ UNCHANGED <<nodes, selection, copyBuffer, lastAction, redoAction, idCounter>>
  /\ UNCHANGED schedVars

\* onSelectionChangeHandler: the user selects some of the nodes on the canvas
OnSelectionChange(sel) ==
  /\ sel \subseteq Ids(nodes)
  /\ sel # selection
  /\ selection' = sel
  /\ Edited
  /\ UNCHANGED <<nodes, edges, copyBuffer, lastAction, redoAction, idCounter>>
  /\ UNCHANGED schedVars

\* handleDelete: the Delete key
HandleDelete ==
  /\ selection # {}
  /\ nodes' = NodesNotIn(nodes, selection)
  /\ edges' = EdgesAvoiding(edges, selection)
  /\ selection' = {}
  /\ Edited
  /\ UNCHANGED <<copyBuffer, lastAction, redoAction, idCounter>>
  /\ UNCHANGED schedVars

\* handleGlobalKey, case 'c'
Copy ==
  /\ selection # {}
  /\ copyBuffer' = [set |-> TRUE, nodes |-> NodesIn(nodes, selection),
                    edges |-> EdgesWithin(edges, selection)]
  /\ Edited
  /\ UNCHANGED <<nodes, edges, selection, lastAction, redoAction, idCounter>>
  /\ UNCHANGED schedVars

\* handleGlobalKey, case 'x'
Cut ==
  /\ selection # {}
  /\ LET nodesToCut == NodesIn(nodes, selection)
         edgesToCut == EdgesWithin(edges, selection)
     IN /\ copyBuffer' = [set |-> TRUE, nodes |-> nodesToCut, edges |-> edgesToCut]
        /\ lastAction' = [type |-> "cut", nodes |-> nodesToCut, edges |-> edgesToCut]
        /\ EditedAs(Recent("did",
                            [type |-> "cut", nodes |-> nodesToCut, edges |-> edgesToCut],
                            copyBuffer, Graph(nodes, edges),
                            Graph(NodesNotIn(nodes, selection),
                                  EdgesAvoiding(edges, selection))))
  /\ nodes' = NodesNotIn(nodes, selection)
  /\ edges' = EdgesAvoiding(edges, selection)
  /\ selection' = {}
  /\ UNCHANGED <<redoAction, idCounter>>
  /\ UNCHANGED schedVars

\* The id minted for the i-th buffered node: `${n.id}_${idCounter.current++}`
PastedId(buf, i, counter) == buf.nodes[i].id \o "_" \o ToString(counter + i - 1)

\* A table that would hand back the buffered edge's own endpoint
OldToNewUnmapped(buf, id, counter) == id

\* oldToNew[id]: the id minted for the last buffered node with that id
OldToNew(buf, id, counter) ==
  IF \E i \in 1..Len(buf.nodes) : buf.nodes[i].id = id
  THEN LET last == CHOOSE i \in 1..Len(buf.nodes) :
                     /\ buf.nodes[i].id = id
                     /\ \A j \in (i + 1)..Len(buf.nodes) : buf.nodes[j].id # id
       IN PastedId(buf, last, counter)
  ELSE "undefined"

\* newNodes of case 'v': { ...n, id: newId, data: { ...n.data, id: newId } }
\* (status, output, sessionId and the onRun callback are copied with n.data)
PastedNodes(buf, counter) ==
  [i \in 1..Len(buf.nodes) |-> [buf.nodes[i] EXCEPT !.id = PastedId(buf, i, counter)]]

\* newEdges of case 'v'
PastedEdges(buf, counter) ==
  [j \in 1..Len(buf.edges) |->
     MakeEdge("e_" \o ToString(counter + Len(buf.nodes) + j - 1),
              OldToNew(buf, buf.edges[j].source, counter),
              OldToNew(buf, buf.edges[j].target, counter))]

\* handleGlobalKey, case 'v'
Paste ==
  /\ copyBuffer.set
  /\ Len(nodes) + Len(copyBuffer.nodes) <= MaxNodes
  /\ idCounter + Len(copyBuffer.nodes) + Len(copyBuffer.edges) <= MaxId + 1
  /\ LET newNodes == PastedNodes(copyBuffer, idCounter)
         newEdges == PastedEdges(copyBuffer, idCounter)
     IN /\ nodes' = nodes \o newNodes
        /\ edges' = edges \o newEdges
        /\ lastAction' = [type |-> "paste", nodes |-> newNodes, edges |-> newEdges]
        /\ selection' = Ids(newNodes)
        /\ EditedAs(Recent("did",
                            [type |-> "paste", nodes |-> newNodes, edges |-> newEdges],
                            copyBuffer, Graph(nodes, edges),
                            Graph(nodes \o newNodes, edges \o newEdges)))
  /\ idCounter' = idCounter + Len(copyBuffer.nodes) + Len(copyBuffer.edges)
  /\ UNCHANGED <<copyBuffer, redoAction>>
  /\ UNCHANGED schedVars

\* handleGlobalKey, case 'a'
SelectAll ==
  /\ selection # Ids(nodes)
  /\ selection' = Ids(nodes)
  /\ Edited
  /\ UNCHANGED <<nodes, edges, copyBuffer, lastAction, redoAction, idCounter>>
  /\ UNCHANGED schedVars

\* An undo that would leave the action in the undo slot
UndoKeepingAction ==
  /\ lastAction.type # "none"
  /\ IF lastAction.type = "paste"
     THEN /\ nodes' = NodesNotIn(nodes, Ids(lastAction.nodes))
          /\ edges' = EdgesNotIds(edges, Ids(lastAction.edges))
     ELSE /\ nodes' = nodes \o lastAction.nodes
          /\ edges' = edges \o lastAction.edges
  /\ redoAction' = lastAction
  /\ lastAction' = lastAction
  /\ selection' = {}
  /\ EditedAs(IF recent.phase = "did" THEN [recent EXCEPT !.phase = "undone"] ELSE NoRecent)
  /\ UNCHANGED <<copyBuffer, idCounter>>
  /\ UNCHANGED schedVars

\* handleGlobalKey, case 'z'
Undo ==
  /\ lastAction.type # "none"
  /\ IF lastAction.type = "paste"
     THEN /\ nodes' = NodesNotIn(nodes, Ids(lastAction.nodes))
          /\ edges' = EdgesNotIds(edges, Ids(lastAction.edges))
     ELSE /\ nodes' = nodes \o lastAction.nodes
          /\ edges' = edges \o lastAction.edges
  /\ redoAction' = lastAction
  /\ lastAction' = NoAction
  /\ selection' = {}
  /\ EditedAs(IF recent.phase = "did" THEN [recent EXCEPT !.phase = "undone"] ELSE NoRecent)
  /\ UNCHANGED <<copyBuffer, idCounter>>
  /\ UNCHANGED schedVars

\* handleGlobalKey, case 'y'
Redo ==
  /\ redoAction.type # "none"
  /\ IF redoAction.type = "paste"
     THEN /\ nodes' = nodes \o redoAction.nodes
          /\ edges' = edges \o redoAction.edges
     ELSE /\ nodes' = NodesNotIn(nodes, Ids(redoAction.nodes))
          /\ edges' = EdgesNotIds(edges, Ids(redoAction.edges))
  /\ lastAction' = redoAction
  /\ redoAction' = NoAction
  /\ EditedAs(IF recent.phase = "undone" THEN [recent EXCEPT !.phase = "redone"] ELSE NoRecent)
  /\ UNCHANGED <<selection, copyBuffer, idCounter>>
  /\ UNCHANGED schedVars

-----------------------------------------------------------------------------
(* Presets, generated workflows, documents, clear *)

\* basicResearchWorkflow, factCheckWorkflow, bibliographyWorkflow,
\* literatureReviewWorkflow: [nodes: <<id, toolType>>, edges: <<id, source, target>>]
Presets ==
  {[nodes |-> <<<<"basic_src", "Source Finder">>, <<"basic_review", "AI Literature Review">>,
                <<"basic_export", "Export TXT">>>>,
    edges |-> <<<<"e1", "basic_src", "basic_review">>, <<"e2", "basic_review", "basic_export">>>>],
   [nodes |-> <<<<"fact_src", "Source Finder">>, <<"fact_claim", "Claim Extractor">>,
                <<"fact_contra", "Contradiction Checker">>, <<"fact_export", "Export DOC">>>>,
    edges |-> <<<<"e3", "fact_src", "fact_claim">>, <<"e4", "fact_claim", "fact_contra">>,
                <<"e5", "fact_contra", "fact_export">>>>],
   [nodes |-> <<<<"bib_src", "Source Finder">>, <<"bib_ref", "Reference & Citation Management">>,
                <<"bib_export", "Export TXT">>>>,
    edges |-> <<<<"e6", "bib_src", "bib_ref">>, <<"e7", "bib_ref", "bib_export">>>>],
   [nodes |-> <<<<"lit_src", "Source Finder">>, <<"lit_review", "AI Literature Review">>,
                <<"lit_export", "Export DOC">>>>,
    edges |-> <<<<"e8", "lit_src", "lit_review">>, <<"e9", "lit_review", "lit_export">>>>]}

\* onApplyPreset: the preset replaces the graph; onRun is bound to node.id
OnApplyPreset(preset) ==
  /\ nodes' = [i \in 1..Len(preset.nodes) |->
                 MakeNode(preset.nodes[i][1], preset.nodes[i][2], EmptyConfig,
                          preset.nodes[i][1])]
  /\ edges' = [j \in 1..Len(preset.edges) |->
                 MakeEdge(preset.edges[j][1], preset.edges[j][2], preset.edges[j][3])]
  /\ Edited
  /\ UNCHANGED <<selection, copyBuffer, lastAction, redoAction, idCounter>>
  /\ UNCHANGED schedVars

\* generateDefaultWorkflow(existingNodeCount): what the workflow generation
\* answers when the language model gives no usable graph
GenerateDefaultWorkflow(existingNodeCount) ==
  LET src == "SourceFinder_" \o ToString(existingNodeCount + 1)
      exp == "ExportTXT_" \o ToString(existingNodeCount + 2)
  IN [nodes |-> <<MakeNode(src, "Source Finder",
                           [EmptyConfig EXCEPT !.prompt = "transformers"], src),
                  MakeNode(exp, "Export TXT", EmptyConfig, exp)>>,
      edges |-> <<MakeEdge("edge_" \o src \o "_to_" \o exp, src, exp)>>]

\* handleChatWorkflowGenerated: the generated nodes and edges are appended
HandleChatWorkflowGenerated ==
  /\ Len(nodes) + 2 <= MaxNodes
  /\ LET wf == GenerateDefaultWorkflow(Len(nodes))
     IN /\ nodes' = nodes \o wf.nodes
        /\ edges' = edges \o wf.edges
  /\ Edited
  /\ UNCHANGED <<selection, copyBuffer, lastAction, redoAction, idCounter>>
  /\ UNCHANGED schedVars

\* Workflow documents a user may pick in onLoadWorkflow: documents that
\* onSaveWorkflow wrote for a dropped node and for a connected pair, two that
\* lack a collection, a text that is not JSON and a document whose `nodes` is
\* not a list of nodes (throws: JSON.parse or the mapping throws), and the
\* document that onSaveWorkflow wrote in an earlier
\* session after a generated default workflow, a copy and paste of its Source
\* Finder (idCounter was 1) and the deletion of its export node
Documents ==
  {[throws |-> FALSE, hasNodes |-> TRUE, hasEdges |-> TRUE,
    nodes |-> <<MakeNode("SourceFinder_1", "Source Finder", EmptyConfig, "SourceFinder_1")>>,
    edges |-> <<>>],
   [throws |-> FALSE, hasNodes |-> TRUE, hasEdges |-> TRUE,
    nodes |-> <<MakeNode("SourceFinder_1", "Source Finder", EmptyConfig, "SourceFinder_1"),
                MakeNode("ExportTXT_2", "Export TXT", EmptyConfig, "ExportTXT_2")>>,
    edges |-> <<MakeEdge("xy-edge__SourceFinder_1-ExportTXT_2", "SourceFinder_1", "ExportTXT_2")>>],
   [throws |-> FALSE, hasNodes |-> TRUE, hasEdges |-> FALSE,
    nodes |-> <<MakeNode("SourceFinder_1", "Source Finder", EmptyConfig, "SourceFinder_1")>>,
    edges |-> <<>>],
   [throws |-> FALSE, hasNodes |-> FALSE, hasEdges |-> TRUE, nodes |-> <<>>, edges |-> <<>>],
   [throws |-> FALSE, hasNodes |-> TRUE, hasEdges |-> TRUE,
    nodes |-> <<MakeNode("SourceFinder_1", "Source Finder",
                         [EmptyConfig EXCEPT !.prompt = "transformers"], "SourceFinder_1"),
                MakeNode("SourceFinder_1_1", "Source Finder",
                         [EmptyConfig EXCEPT !.prompt = "transformers"], "SourceFinder_1_1")>>,
    edges |-> <<>>],
   [throws |-> TRUE, hasNodes |-> FALSE, hasEdges |-> FALSE, nodes |-> <<>>, edges |-> <<>>],
   [throws |-> TRUE, hasNodes |-> TRUE, hasEdges |-> TRUE, nodes |-> <<>>, edges |-> <<>>]}

\* A validation that would look at `nodes` alone
InvalidWorkflowFileNodesOnly(doc) == doc.throws \/ ~doc.hasNodes

\* The documents reader.onload turns down: JSON.parse or the mapping of the
\* nodes throws (caught), or `!workflowData.nodes || !workflowData.edges`
InvalidWorkflowFile(doc) == doc.throws \/ ~doc.hasNodes \/ ~doc.hasEdges

\* The nodes of a document with their callbacks rewired
LoadedNodes(doc) ==
  [i \in 1..Len(doc.nodes) |-> [doc.nodes[i] EXCEPT !.status = "pending"]]

\* onLoadWorkflow, reader.onload
OnLoadWorkflow(doc) ==
  /\ IF InvalidWorkflowFile(doc)
     THEN UNCHANGED <<nodes, edges>>
     ELSE /\ nodes' = LoadedNodes(doc)
          /\ edges' = doc.edges
  /\ opCount < MaxOps
  /\ opCount' = opCount + 1
  /\ lastOp' = Op(IF InvalidWorkflowFile(doc) THEN "rejected load" ELSE "load")
  /\ recent' = NoRecent
  /\ UNCHANGED <<selection, copyBuffer, lastAction, redoAction, idCounter>>
  /\ UNCHANGED schedVars

-----------------------------------------------------------------------------
(* The scheduler: onRunWorkflow, executeNode, onStopWorkflow *)

editVars == <<edges, selection, copyBuffer, lastAction, redoAction, idCounter, opCount,
              recent, saved>>

\* A pending window.setTimeout of executeNode(nodeId, delay), made by run `run`.
\* kind: "root" (delay 500 + 200 * index) or "child" (delay 50). parent is the
\* node whose completion scheduled it and pdone whether that node was success
\* or error then (history).
Timer(node, run, kind, parent, pdone) ==
  [node |-> node, run |-> run, kind |-> kind, parent |-> parent, pdone |-> pdone]

\* An execution whose timer fired. pc: "sess" awaits the 10 ms of line 547,
\* "ui" the 0 ms of line 456, "fetch" the tool's answer, "post" the 0 ms of
\* line 555. bound is the id the node's onRun callback runs.
Task(tid, t, bound, pc) ==
  [tid |-> tid, node |-> t.node, run |-> t.run, parent |-> t.parent, pdone |-> t.pdone,
   kind |-> t.kind, bound |-> bound, pc |-> pc, tool |-> ""]

\* An entry of the history log
Entry(type, node, bound, run, parent, pdone) ==
  [type |-> type, node |-> node, bound |-> bound, run |-> run, parent |-> parent,
   pdone |-> pdone, afterStop |-> run \in stoppedRuns, tool |-> "",
   payload |-> NullVal, adapted |-> NullVal, hasPred |-> FALSE, predStatus |-> "",
   predOutput |-> NoOutput, literal |-> ""]

\* A root detection that would look at the sources of the edges
RootNodesBySource(ns, es) ==
  SelectSeq(ns, LAMBDA n : ~\E i \in 1..Len(es) : es[i].source = n.id)

\* The status of the node that getInputFromPredecessorNode reads for nodeId: the
\* source of the first edge into nodeId; "" if there is none
PredecessorStatus(nodeId, currentEdges, currentNodes) ==
  LET e == FindIndex([i \in 1..Len(currentEdges) |-> [id |-> currentEdges[i].target]], nodeId)
      p == IF e = 0 THEN 0 ELSE FindIndex(currentNodes, currentEdges[e].source)
  IN IF p = 0 THEN "" ELSE currentNodes[p].status

\* The output that getInputFromPredecessorNode reads for nodeId: data.output of
\* the source of the first edge into nodeId; NoOutput if there is none
PredecessorOutput(nodeId, currentEdges, currentNodes) ==
  LET e == FindIndex([i \in 1..Len(currentEdges) |-> [id |-> currentEdges[i].target]], nodeId)
      p == IF e = 0 THEN 0 ELSE FindIndex(currentNodes, currentEdges[e].source)
  IN IF p = 0 THEN NoOutput ELSE currentNodes[p].output

\* nodesRef.current.filter(node => !edgesRef.current.some(edge => edge.target === node.id))
RootNodes(ns, es) ==
  SelectSeq(ns, LAMBDA n : ~\E i \in 1..Len(es) : es[i].target = n.id)

\* onRunWorkflow; the Run button is shown while the scheduler is idle
OnRunWorkflow ==
  /\ ~runningWorkflow
  /\ runCount < MaxRuns
  /\ IF Len(nodes) = 0
     THEN /\ lastCmd' = Cmd("run", 0, FALSE, FALSE, {})
          /\ UNCHANGED <<nodes, runningWorkflow, workflowExecutionRefs, timers, runCount>>
     ELSE LET rootNodes == RootNodes(nodes, edges)
          IN /\ nodes' = SetAllStatus(nodes, "running")
             /\ IF Len(rootNodes) = 0
                THEN /\ lastCmd' = Cmd("run", 0, FALSE, FALSE, {})
                     /\ UNCHANGED <<runningWorkflow, workflowExecutionRefs, timers, runCount>>
                ELSE /\ runningWorkflow' = TRUE
                     /\ runCount' = runCount + 1
                     /\ workflowExecutionRefs' = runCount + 1
                     /\ timers' = timers \o
                          [i \in 1..Len(rootNodes) |->
                             Timer(rootNodes[i].id, runCount + 1, "root", "", FALSE)]
                     /\ lastCmd' = Cmd("run", runCount + 1, FALSE, FALSE, {})
  /\ lastOp' = Op("run")
  /\ UNCHANGED <<tasks, stoppedRuns, log>>
  /\ UNCHANGED editVars

\* Timers fire by due time: the roots of one run in index order, the child
\* timers (all of delay 50) in the order they were made
CanFire(k) ==
  \A j \in 1..(k - 1) :
    /\ ~(timers[j].kind = "child" /\ timers[k].kind = "child")
    /\ ~(timers[j].kind = "root" /\ timers[k].kind = "root" /\ timers[j].run = timers[k].run)

RemoveAt(seq, k) == SubSeq(seq, 1, k - 1) \o SubSeq(seq, k + 1, Len(seq))

FreshTid == CHOOSE i \in 1..(Cardinality(tasks) + 1) : \A t \in tasks : t.tid # i

\* A write-back that would add the node when the graph has none of that id
OnRunStartOrInsert(ns, bound) ==
  IF FindIndex(ns, bound) = 0
  THEN Append(ns, [MakeNode(bound, "Source Finder", EmptyConfig, bound) EXCEPT
                     !.status = "running"])
  ELSE SetStatus(ns, bound, "running")

\* createOnRunCallback(nodeId), up to its await: the bound node is marked running
OnRunStart(ns, bound) == SetStatus(ns, bound, "running")

\* executeNode, the timer callback up to its first await (lines 539-549)
ExecuteNodeFire(k) ==
  /\ k \in 1..Len(timers)
  /\ CanFire(k)
  /\ LET t == timers[k]
         i == FindIndex(nodes, t.node)
     IN IF i = 0
        THEN /\ tasks' = tasks \cup {Task(FreshTid, t, "", "post")}
             /\ UNCHANGED <<nodes, log>>
        ELSE /\ IF ~nodes[i].sessionId
                THEN /\ nodes' = SetSession(nodes, t.node)
                     /\ tasks' = tasks \cup {Task(FreshTid, t, nodes[i].onRun, "sess")}
                ELSE /\ nodes' = OnRunStart(nodes, nodes[i].onRun)
                     /\ tasks' = tasks \cup {Task(FreshTid, t, nodes[i].onRun, "ui")}
             /\ log' = log \cup {Entry("start", t.node, nodes[i].onRun, t.run, t.parent, t.pdone)}
  /\ timers' = RemoveAt(timers, k)
  /\ lastOp' = Op("fire")
  /\ UNCHANGED <<runningWorkflow, workflowExecutionRefs, runCount, stoppedRuns, lastCmd>>
  /\ UNCHANGED editVars

\* executeNode after the 10 ms of line 547: node.data.onRun(nodeId) is called
ExecuteNodeOnRun(t) ==
  /\ t \in tasks /\ t.pc = "sess"
  /\ nodes' = OnRunStart(nodes, t.bound)
  /\ tasks' = (tasks \ {t}) \cup {[t EXCEPT !.pc = "ui"]}
  /\ lastOp' = Op("onRun")
  /\ UNCHANGED <<runningWorkflow, workflowExecutionRefs, timers, runCount, stoppedRuns, log,
                 lastCmd>>
  /\ UNCHANGED editVars

\* handleToolExecution(nodeId) up to the tool call (lines 337-434): the node is
\* looked up, the request is built, and either the call goes out or the error
\* thrown before it is written back by the catch of line 442
HandleToolExecution(t) ==
  /\ t \in tasks /\ t.pc = "ui"
  /\ LET i == FindIndex(nodes, t.bound)
     IN IF i = 0
        THEN /\ nodes' = SetResult(nodes, t.bound, "error", ErrorOutput("Node not found"))
             /\ tasks' = (tasks \ {t}) \cup {[t EXCEPT !.pc = "post"]}
             /\ UNCHANGED log
        ELSE LET req == ToolRequest(nodes[i], edges, nodes)
             IN IF req.throws
                THEN /\ nodes' = SetResult(nodes, t.bound, "error", ErrorOutput(req.msg))
                     /\ tasks' = (tasks \ {t}) \cup {[t EXCEPT !.pc = "post"]}
                     /\ UNCHANGED log
                ELSE /\ nodes' = SetSession(nodes, t.bound)
                     /\ tasks' = (tasks \ {t})
                                 \cup {[t EXCEPT !.pc = "fetch", !.tool = nodes[i].toolType]}
                     /\ log' = log \cup
                          {[Entry("invoke", t.node, t.bound, t.run, t.parent, t.pdone) EXCEPT
                              !.tool = nodes[i].toolType,
                              !.payload = req.payload,
                              !.adapted = GetInputFromPredecessorNode(
                                            t.bound, edges, nodes, nodes[i].toolType),
                              !.hasPred = \E e \in Range(edges) : e.target = t.bound,
                              !.predStatus = PredecessorStatus(t.bound, edges, nodes),
                              !.predOutput = PredecessorOutput(t.bound, edges, nodes),
                              !.literal = IF nodes[i].toolType = "Reference & Citation Management"
                                          THEN nodes[i].config.referencesInput
                                          ELSE nodes[i].config.prompt]}
  /\ lastOp' = Op("handle")
  /\ UNCHANGED <<runningWorkflow, workflowExecutionRefs, timers, runCount, stoppedRuns,
                 lastCmd>>
  /\ UNCHANGED editVars

\* handleToolExecution after the tool's answer (lines 438-447)
ToolReturns(t, resp) ==
  /\ t \in tasks /\ t.pc = "fetch"
  /\ nodes' = IF resp.ok
              THEN SetResult(nodes, t.bound, "success", SuccessOutput(t.tool, resp.body))
              ELSE SetResult(nodes, t.bound, "error", ErrorOutput(resp.msg))
  /\ tasks' = (tasks \ {t}) \cup {[t EXCEPT !.pc = "post"]}
  /\ lastOp' = Op("return")
  /\ UNCHANGED <<runningWorkflow, workflowExecutionRefs, timers, runCount, stoppedRuns, log,
                 lastCmd>>
  /\ UNCHANGED editVars

ToolReturnsUsual == \E t \in tasks : \E resp \in UsualResponses(t.tool) : ToolReturns(t, resp)

ToolReturnsAny == \E t \in tasks : \E resp \in AnyResponses : ToolReturns(t, resp)

\* A guard that would count parents: a child is queued by the completion of
\* the last of its parents to become terminal
ChildrenToQueueByInDegree(nodeId, ns, es) ==
  SelectSeq(SelectSeq(es, LAMBDA e : e.source = nodeId),
            LAMBDA e : /\ FindIndex(ns, e.target) # 0
                       /\ \A f \in Range(es) :
                            f.target = e.target
                              => /\ FindIndex(ns, f.source) # 0
                                 /\ ns[FindIndex(ns, f.source)].status \in Terminal)

\* The children executeNode queues (lines 556-571): the targets of the edges
\* out of nodeId that are nodes with status running
ChildrenToQueue(nodeId, ns, es) ==
  SelectSeq(SelectSeq(es, LAMBDA e : e.source = nodeId),
            LAMBDA e : /\ FindIndex(ns, e.target) # 0
                       /\ ns[FindIndex(ns, e.target)].status = "running")

AllNodesProcessed(ns) == \A i \in 1..Len(ns) : ns[i].status \in Terminal
AnyStillRunning(ns) == \E i \in 1..Len(ns) : ns[i].status = "running"

\* line 576: running nodes go back to pending
ResetRunning(ns) ==
  [i \in 1..Len(ns) |->
     IF ns[i].status = "running" THEN [ns[i] EXCEPT !.status = "pending"] ELSE ns[i]]

\* executeNode after the 0 ms of line 555: child scheduling and completion check
ExecuteNodeChildren(t) ==
  /\ t \in tasks /\ t.pc = "post"
  /\ LET queue == ChildrenToQueue(t.node, nodes, edges)
         p == FindIndex(nodes, t.node)
         done == p # 0 /\ nodes[p].status \in Terminal
     IN /\ timers' = timers \o
             [j \in 1..Len(queue) |-> Timer(queue[j].target, t.run, "child", t.node, done)]
        /\ log' = log \cup
             {Entry("queue", queue[j].target, "", t.run, t.node, done) : j \in 1..Len(queue)}
  /\ IF AllNodesProcessed(nodes)
     THEN /\ runningWorkflow' = FALSE
          /\ nodes' = ResetRunning(nodes)
     ELSE /\ runningWorkflow' = (runningWorkflow /\ AnyStillRunning(nodes))
          /\ UNCHANGED nodes
  /\ tasks' = tasks \ {t}
  /\ lastOp' = Op("children")
  /\ UNCHANGED <<workflowExecutionRefs, runCount, stoppedRuns, lastCmd>>
  /\ UNCHANGED editVars

\* A store that would hold only the timers of the roots
InStoreRootsOnly(t, refs) == refs # 0 /\ t.run = refs /\ t.kind = "root"

\* The timers whose ids are in the timeoutIdsStore that workflowExecutionRefs
\* holds: executeNode pushes every timer of the run into that same array
InStore(t, refs) == refs # 0 /\ t.run = refs

\* What the last command was if onStopWorkflow ran now
StopCmd ==
  Cmd("stop", workflowExecutionRefs,
      (\A e \in log : e.run # workflowExecutionRefs)
        /\ (\A t \in tasks : t.run # workflowExecutionRefs),
      tasks = {} /\ (\A k \in 1..Len(timers) : timers[k].run = workflowExecutionRefs),
      {timers[k].kind : k \in {j \in 1..Len(timers) : InStore(timers[j], workflowExecutionRefs)}})

\* A stop that would leave the statuses as they are
StoppedNodesUntouched == nodes

\* What onStopWorkflow does to the timers, the nodes and the scheduler
StoppedTimers == SelectSeq(timers, LAMBDA t : ~InStore(t, workflowExecutionRefs))
StoppedNodes == SetAllStatus(nodes, "pending")

\* onStopWorkflow; the Stop button is shown while the scheduler is running
OnStopWorkflow ==
  /\ runningWorkflow
  /\ timers' = StoppedTimers
  /\ workflowExecutionRefs' = 0
  /\ nodes' = StoppedNodes
  /\ runningWorkflow' = FALSE
  /\ stoppedRuns' = stoppedRuns \cup {workflowExecutionRefs}
  /\ lastCmd' = StopCmd
  /\ lastOp' = Op("stop")
  /\ UNCHANGED <<tasks, runCount, log>>
  /\ UNCHANGED editVars

\* onClearWorkflow
OnClearWorkflow ==
  /\ IF runningWorkflow
     THEN /\ timers' = StoppedTimers
          /\ workflowExecutionRefs' = 0
          /\ stoppedRuns' = stoppedRuns \cup {workflowExecutionRefs}
          /\ lastCmd' = StopCmd
     ELSE UNCHANGED <<timers, workflowExecutionRefs, stoppedRuns, lastCmd>>
  /\ runningWorkflow' = FALSE
  /\ nodes' = <<>>
  /\ edges' = <<>>
  /\ Edited
  /\ UNCHANGED <<selection, copyBuffer, lastAction, redoAction, idCounter>>
  /\ UNCHANGED <<tasks, runCount, log, saved>>

\* onConfigChange of a dropped node: the user types text into the node's input
\* field, which is config.referencesInput for the reference tool and
\* config.prompt for the others
OnConfigChange(id, text) ==
  /\ id \in Ids(nodes)
  /\ nodes' = [i \in 1..Len(nodes) |->
                 IF nodes[i].id = id
                 THEN IF nodes[i].toolType = "Reference & Citation Management"
                      THEN [nodes[i] EXCEPT !.config = [@ EXCEPT !.referencesInput = text]]
                      ELSE [nodes[i] EXCEPT !.config = [@ EXCEPT !.prompt = text]]
                 ELSE nodes[i]]
  /\ Edited
  /\ UNCHANGED <<edges, selection, copyBuffer, lastAction, redoAction, idCounter>>
  /\ UNCHANGED schedVars

-----------------------------------------------------------------------------
(* Specifications *)

\* A serialisation that would spread the whole of node.data
SavedNodeWithData(n) == [n EXCEPT !.onRun = n.id]

\* A node as onSaveWorkflow writes it: of its data the id, the label, the tool
\* type and the config, with status 'pending'. onRun is the id that a load of
\* the document gives to createOnRunCallback, node.data.id || node.id
\* (onDrop, paste, presets and generated workflows all set data.id to the id)
SavedNode(n) == MakeNode(n.id, n.toolType, n.config, n.id)

\* The document that onSaveWorkflow writes for the graph
WorkflowData(ns, es) ==
  [throws |-> FALSE, hasNodes |-> TRUE, hasEdges |-> TRUE,
   nodes |-> [i \in 1..Len(ns) |-> SavedNode(ns[i])], edges |-> es]

\* The saved document with, as history, the graph it was written for
Saved(set, doc, of) == [set |-> set, doc |-> doc, of |-> of]
NoSaved == Saved(FALSE, WorkflowData(<<>>, <<>>), Graph(<<>>, <<>>))

\* onSaveWorkflow: writes the document (localStorage and download)
OnSaveWorkflow ==
  /\ nodes # <<>>
  /\ saved' = Saved(TRUE, WorkflowData(nodes, edges), Graph(nodes, edges))
  /\ lastOp' = Op("save")
  /\ UNCHANGED <<nodes, edges, selection, copyBuffer, lastAction, redoAction, idCounter,
                 opCount, recent>>
  /\ UNCHANGED <<runningWorkflow, workflowExecutionRefs, timers, tasks, runCount,
                 stoppedRuns, log, lastCmd>>

\* The component as mounted: the state of lines 223-237
Mounted ==
  /\ nodes = <<>> /\ edges = <<>> /\ selection = {}
  /\ copyBuffer = NoBuffer /\ lastAction = NoAction /\ redoAction = NoAction
  /\ idCounter = 1
  /\ runningWorkflow = FALSE /\ workflowExecutionRefs = 0
  /\ timers = <<>> /\ tasks = {} /\ runCount = 0
  /\ stoppedRuns = {} /\ log = {} /\ lastOp = Op("mount") /\ lastCmd = NoCmd /\ opCount = 0
  /\ recent = NoRecent
  /\ saved = NoSaved

\* The tools dragged from the sidebar while editing
EditTools == {"Source Finder", "Export TXT"}

\* Clipboard editing: the operations of handleGlobalKey and handleDelete on
\* nodes made by onDrop and onConnect
ClipNext ==
  \/ \E tool \in EditTools : OnDrop(tool)
  \/ \E s \in Ids(nodes), t \in Ids(nodes) : OnConnect(s, t)
  \/ \E sel \in SUBSET Ids(nodes) : OnSelectionChange(sel)
  \/ HandleDelete
  \/ Copy
  \/ Cut
  \/ Paste
  \/ SelectAll
  \/ Undo
  \/ Redo
  \/ OnClearWorkflow

ClipSpec == Mounted /\ [][ClipNext]_vars

\* Every graph operation
EditNext ==
  \/ ClipNext
  \/ \E preset \in Presets : OnApplyPreset(preset)
  \/ HandleChatWorkflowGenerated
  \/ \E doc \in Documents : OnLoadWorkflow(doc)

EditSpec == Mounted /\ [][EditNext]_vars

-----------------------------------------------------------------------------
(* Scheduler runs on graphs that editing has prepared *)

RunDrops == 2
RunPastes == 1
RunEdges == 2

\* The nodes after onDrop of tools[1], ..., tools[D] in a fresh session
DroppedNodes(tools) ==
  [i \in 1..Len(tools) |->
     MakeNode(StripSpaces(tools[i]) \o "_" \o ToString(i), tools[i], EmptyConfig,
              StripSpaces(tools[i]) \o "_" \o ToString(i))]

\* The copy buffer after selecting node n and pressing copy or cut
BufferOf(n) == [set |-> TRUE, nodes |-> <<n>>, edges |-> <<>>]

\* The nodes that k pastes of that buffer add, the first with idCounter = first
PastedCopies(n, first, k) == [i \in 1..k |-> PastedNodes(BufferOf(n), first + i - 1)[1]]

\* All pairs of positions of n nodes, row by row
Pairs(n) == [m \in 1..(n * n) |-> <<((m - 1) \div n) + 1, ((m - 1) % n) + 1>>]

RECURSIVE Connected(_, _, _)
\* The edges after onConnect for the position pairs ps, in order
Connected(ns, ps, eds) ==
  IF ps = <<>> THEN eds
  ELSE Connected(ns, Tail(ps), AddEdge(ns[Head(ps)[1]].id, ns[Head(ps)[2]].id, eds))

\* The session after: onDrop of the tools; if k > 0, select the first node,
\* copy it (or cut it), paste k times and click the canvas; onConnect for the
\* pairs E; typing text into the last node's input field. Nothing has run.
Prepared(tools, k, cut, E, text) ==
  LET dropped == DroppedNodes(tools)
      pasted == PastedCopies(dropped[1], Len(tools) + 1, k)
      ns == (IF cut THEN Tail(dropped) ELSE dropped) \o pasted
      typed == [i \in 1..Len(ns) |->
                  IF i = Len(ns) /\ text # ""
                  THEN IF ns[i].toolType = "Reference & Citation Management"
                       THEN [ns[i] EXCEPT !.config = [@ EXCEPT !.referencesInput = text]]
                       ELSE [ns[i] EXCEPT !.config = [@ EXCEPT !.prompt = text]]
                  ELSE ns[i]]
  IN /\ nodes = typed
     /\ edges = Connected(ns, SelectSeq(Pairs(Len(ns)), LAMBDA q : q \in E), <<>>)
     /\ selection = {}
     /\ copyBuffer = IF k = 0 THEN NoBuffer ELSE BufferOf(dropped[1])
     /\ lastAction = IF k = 0 THEN NoAction
                     ELSE [type |-> "paste", nodes |-> <<pasted[k]>>, edges |-> <<>>]
     /\ redoAction = NoAction
     /\ idCounter = Len(tools) + k + 1
     /\ runningWorkflow = FALSE /\ workflowExecutionRefs = 0
     /\ timers = <<>> /\ tasks = {} /\ runCount = 0
     /\ stoppedRuns = {} /\ log = {} /\ lastOp = Op("edit") /\ lastCmd = NoCmd
     /\ opCount = 0
     /\ recent = NoRecent
     /\ saved = NoSaved

\* The pairs that onConnect accepts among n nodes
ConnectPairs(n) == {q \in (1..n) \X (1..n) : q[1] # q[2]}

\* The tools of the nodes in scheduler runs: one that needs no input and one
\* that needs a prompt or a predecessor
RunTools == {"Source Finder", "Claim Extractor"}

RunInit ==
  \E D \in 1..RunDrops : \E tools \in [1..D -> RunTools] :
    \E k \in 0..RunPastes : \E cut \in BOOLEAN :
      \E E \in SUBSET ConnectPairs(D + k - (IF cut THEN 1 ELSE 0)) :
        /\ cut => k > 0
        /\ Cardinality(E) <= RunEdges
        /\ Prepared(tools, k, cut, E, "")

\* The steps of a run: timers firing and awaits ending
RunSteps ==
  \/ \E k \in 1..Len(timers) : ExecuteNodeFire(k)
  \/ \E t \in tasks : ExecuteNodeOnRun(t)
  \/ \E t \in tasks : HandleToolExecution(t)
  \/ \E t \in tasks : ExecuteNodeChildren(t)

\* One run to its end, with no command during it
RunNext ==
  \/ (runCount = 0 /\ lastCmd = NoCmd /\ OnRunWorkflow)
  \/ RunSteps
  \/ ToolReturnsUsual

RunSpec == RunInit /\ [][RunNext]_vars

StopDrops == 2

StopInit ==
  \E D \in 1..StopDrops : \E E \in SUBSET ConnectPairs(D) :
    /\ Cardinality(E) <= 1
    /\ Prepared([i \in 1..D |-> "Source Finder"], 0, FALSE, E, "")

\* Runs with Stop and Run commands at any moment
StopNext ==
  \/ OnRunWorkflow
  \/ OnStopWorkflow
  \/ RunSteps
  \/ ToolReturnsUsual

StopSpec == StopInit /\ [][StopNext]_vars

\* A predecessor of any tool and a consumer of any tool, connected or not,
\* the consumer with or without a literal input of its own
ToolInit ==
  \E tools \in [1..2 -> ToolTypes] : \E E \in {{}, {<<1, 2>>}} : \E text \in {"", "lit"} :
    Prepared(tools, 0, FALSE, E, text)

\* One run in which the tools answer with bodies of every shape
ToolNext ==
  \/ (runCount = 0 /\ lastCmd = NoCmd /\ OnRunWorkflow)
  \/ RunSteps
  \/ ToolReturnsAny

ToolSpec == ToolInit /\ [][ToolNext]_vars

\* The diamond A -> B, A -> C, B -> D, C -> D of four dropped Source Finders
DiamondEdges == {<<1, 2>>, <<1, 3>>, <<2, 4>>, <<3, 4>>}

DiamondInit == Prepared([i \in 1..4 |-> "Source Finder"], 0, FALSE, DiamondEdges, "")

\* One run of the diamond to its end
DiamondSpec == DiamondInit /\ [][RunNext]_vars

\* Graphs of Source Finders with a cycle that a root reaches: root 1 into
\* the cycle 2 <-> 3; root 1 into both nodes of the cycle 2 <-> 3; root 1
\* into node 2 and into both nodes of the cycle 3 <-> 4, and node 2 into node 3
CycleGraphs ==
  {[n |-> 3, edges |-> {<<1, 2>>, <<2, 3>>, <<3, 2>>}],
   [n |-> 3, edges |-> {<<1, 2>>, <<1, 3>>, <<2, 3>>, <<3, 2>>}],
   [n |-> 4, edges |-> {<<1, 2>>, <<1, 3>>, <<1, 4>>, <<2, 3>>, <<3, 4>>, <<4, 3>>}]}

CycleInit ==
  \E g \in CycleGraphs : Prepared([i \in 1..g.n |-> "Source Finder"], 0, FALSE, g.edges, "")

\* Every tool call returns its usual body
ToolReturnsOk == \E t \in tasks : ToolReturns(t, OkResponse(UsualBody(t.tool)))

CycleNext ==
  \/ (runCount = 0 /\ lastCmd = NoCmd /\ OnRunWorkflow)
  \/ RunSteps
  \/ ToolReturnsOk

\* The executions that can be unfinished at one time in these runs
CycleTasks == 3

\* The timer of that kind that is due first fires
TimerStep(kind) == \E k \in 1..Len(timers) : timers[k].kind = kind /\ ExecuteNodeFire(k)

\* One run of a cyclic graph under the event loop's guarantees: every timer
\* that is due fires, and every execution that has started comes to its end
\* (its awaits end and its tool call returns), so that each of the CycleTasks
\* task ids is free again and again
CycleSpec ==
  /\ CycleInit /\ [][CycleNext]_vars
  /\ WF_vars(TimerStep("root")) /\ WF_vars(TimerStep("child"))
  /\ \A i \in 1..CycleTasks : []<>(\A t \in tasks : t.tid # i)

DeleteDrops == 2
DeleteOps == 4

DeleteInit ==
  \E D \in 1..DeleteDrops : \E E \in SUBSET ConnectPairs(D) :
    /\ Cardinality(E) <= 1
    /\ Prepared([i \in 1..D |-> "Source Finder"], 0, FALSE, E, "")

\* One run during which nodes are selected and deleted (DeleteOps commands)
DeleteNext ==
  \/ (runCount = 0 /\ lastCmd = NoCmd /\ OnRunWorkflow)
  \/ RunSteps
  \/ ToolReturnsUsual
  \/ \E sel \in SUBSET Ids(nodes) : opCount < DeleteOps /\ OnSelectionChange(sel)
  \/ (opCount < DeleteOps /\ HandleDelete)

DeleteSpec == DeleteInit /\ [][DeleteNext]_vars

\* The same with the event loop's guarantees: a timer that is due fires, an
\* await that has ended continues, and every tool call returns
DeleteFairSpec ==
  DeleteSpec /\ WF_vars(RunSteps) /\ WF_vars(ToolReturnsUsual)

SaveDrops == 2
SavePastes == 1
MaxSaves == 1
MaxLoads == 1

\* Graphs of dropped and pasted nodes, connected or not, with or without text
\* typed into the last node
SaveInit ==
  \E D \in 1..SaveDrops : \E tools \in [1..D -> RunTools] :
    \E k \in 0..SavePastes : \E E \in SUBSET ConnectPairs(D + k) : \E text \in {"", "lit"} :
      /\ Cardinality(E) <= 1
      /\ Prepared(tools, k, FALSE, E, text)

\* A run during or after which the graph is saved (MaxSaves times) and the
\* saved document is loaded (MaxLoads times)
SaveNext ==
  \/ (runCount = 0 /\ lastCmd = NoCmd /\ OnRunWorkflow)
  \/ RunSteps
  \/ ToolReturnsUsual
  \/ (MaxSaves > 0 /\ ~saved.set /\ OnSaveWorkflow)
  \/ (saved.set /\ opCount < MaxLoads /\ OnLoadWorkflow(saved.doc))

SaveSpec == SaveInit /\ [][SaveNext]_vars

-----------------------------------------------------------------------------
(* Properties of the graph store *)

\* C3: node-id uniqueness. After any sequence of graph operations (drop, paste,
\* cut, undo, redo, delete, preset, load, generated workflow, clear) no two
\* nodes of the graph have the same id.
NodeIdsUnique ==
  \A i \in 1..Len(nodes) : \A j \in 1..Len(nodes) : i # j => nodes[i].id # nodes[j].id

\* C4: edge-endpoint invariant. After any sequence of connect, delete, cut,
\* paste, undo, redo and clear, the source and the target of every edge are
\* ids of nodes of the graph.
EdgeEndpointsPresent ==
  \A j \in 1..Len(edges) : edges[j].source \in Ids(nodes) /\ edges[j].target \in Ids(nodes)

-----------------------------------------------------------------------------
(* Properties of the scheduler *)

RECURSIVE ReachableFrom(_, _)
\* The ids reachable from the ids S along the edges es
ReachableFrom(S, es) ==
  LET T == S \cup {es[j].target : j \in {i \in 1..Len(es) : es[i].source \in S}}
  IN IF T = S THEN S ELSE ReachableFrom(T, es)

Acyclic(es) == \A j \in 1..Len(es) : es[j].source \notin ReachableFrom({es[j].target}, es)

InDegreeZero(ns, es) == {n \in Ids(ns) : \A j \in 1..Len(es) : es[j].target # n}

AllReachable(ns, es) == Ids(ns) \subseteq ReachableFrom(InDegreeZero(ns, es), es)

\* A run was started and nothing of it is scheduled or unfinished any more
Settled == runCount > 0 /\ timers = <<>> /\ tasks = {}

Invoked(id) == \E e \in log : e.type = "invoke" /\ e.node = id
Started(id) == \E e \in log : e.type = "start" /\ e.node = id

\* C1: terminal convergence. On an acyclic graph whose nodes are all reachable
\* from a root, however the nodes were created, a run whose tool calls all
\* return settles with the scheduler idle and every node success or error.
TerminalConvergence ==
  (Settled /\ Acyclic(edges) /\ AllReachable(nodes, edges))
    => (~runningWorkflow /\ AllNodesProcessed(nodes))

\* C2: ordering guarantee. The tool of a non-root node is invoked only after
\* the parent whose completion scheduled it has reached success or error in
\* that run, and only root nodes are invoked without a completed parent.
InvokedAfterParent ==
  \A e \in log :
    e.type = "invoke" =>
      IF e.parent = ""
      THEN e.node \in InDegreeZero(nodes, edges)
      ELSE e.pdone /\ \E j \in 1..Len(edges) :
                        edges[j].source = e.parent /\ edges[j].target = e.node

\* C5: after stop() the stopped run starts no further tool invocation and
\* schedules no child, whatever commands follow the stop.
NoWorkAfterStop ==
  \A e \in log : e.type \in {"invoke", "queue"} => ~e.afterStop

\* C6: postcondition of stop(). Immediately after stop() the scheduler is idle,
\* no timer of the stopped run (of a root or of a child) is pending and no node
\* has status running.
StopPostcondition ==
  lastOp.name = "stop" =>
    /\ ~runningWorkflow
    /\ \A k \in 1..Len(timers) : timers[k].run # lastCmd.run
    /\ \A i \in 1..Len(nodes) : nodes[i].status # "running"

\* C6 witness: a stop that cleared the timer of a child scheduled during the run
StopClearedChildTimer ==
  lastOp.name = "stop" /\ "child" \in lastCmd.cleared /\ ~runningWorkflow

\* C7 as stated: after a stop() that came before the first root's delay had
\* elapsed, no tool is invoked for that run and every node is and stays pending
\* until the next command.
EarlyStopLeavesPending ==
  (lastCmd.name = "stop" /\ lastCmd.early) =>
    /\ \A e \in log : e.type = "invoke" => e.run # lastCmd.run
    /\ \A i \in 1..Len(nodes) : nodes[i].status = "pending"

\* C7 amended: the same, provided no execution of an earlier run was still
\* scheduled or unfinished when stop() was called; nothing is then left that
\* could change a node before the next command.
EarlyStopLeavesPendingWhenClean ==
  (lastCmd.name = "stop" /\ lastCmd.early /\ lastCmd.clean) =>
    /\ \A e \in log : e.type = "invoke" => e.run # lastCmd.run
    /\ \A i \in 1..Len(nodes) : nodes[i].status = "pending"
    /\ timers = <<>> /\ tasks = {}
    /\ ~runningWorkflow

\* C7 witness: the second run of a two-node graph stopped before its first
\* root's delay elapsed, with nothing of the first run left
EarlyStopReached ==
  /\ lastCmd.name = "stop" /\ lastCmd.early /\ lastCmd.clean
  /\ lastCmd.run = 2 /\ "root" \in lastCmd.cleared
  /\ Len(nodes) = 2

\* What run() has just scheduled: the nodes of the root timers of the new run
ScheduledInitially == {timers[k].node : k \in {j \in 1..Len(timers) : timers[j].run = lastCmd.run}}

NoEntryPointAbort ==
  [][(OnRunWorkflow /\ Len(nodes) > 0 /\ InDegreeZero(nodes, edges) = {})
       => (~runningWorkflow' /\ timers' = timers /\ tasks' = tasks /\ log' = log
           /\ nodes' = nodes)]_vars

\* C10: input precedence. For every tool type that consumes input, when the
\* node has a predecessor whose output is present the tool is invoked with the
\* value adapted from that output; the literal config input is used only else.
InputPrecedence ==
  \A e \in log :
    (e.type = "invoke" /\ e.tool # "Source Finder" /\ e.hasPred
       /\ e.predStatus = "success" /\ e.adapted.kind # "null")
      => e.payload = e.adapted

-----------------------------------------------------------------------------
(* Properties of the tool execution *)

\* C11: configuration error. For every tool type, a node executed with no
\* predecessor output available and an empty literal input in its config is not
\* invoked: every tool invocation has a predecessor output or a literal input,
\* and such a node ends the run with status error and an error message.
ConfigurationError ==
  /\ \A e \in log :
       e.type = "invoke" => (Truthy(e.predOutput) \/ e.literal # "")
  /\ Settled =>
       \A i \in 1..Len(nodes) :
         (~Truthy(PredecessorOutput(nodes[i].id, edges, nodes))
            /\ nodes[i].config = EmptyConfig)
           => (nodes[i].status = "error" /\ "error" \in nodes[i].output.keys)

\* The node id has status error and the output { error: m }, nothing else in it
FailedAs(id, m) ==
  \E i \in 1..Len(nodes) :
    /\ nodes[i].id = id
    /\ nodes[i].status = "error"
    /\ nodes[i].output.defined /\ ~nodes[i].output.isStr
    /\ nodes[i].output.keys = {"error"} /\ nodes[i].output.error = m

\* The execution tid is at the step that schedules children and checks completion
AwaitsChildren(tid) == \E u \in tasks : u.tid = tid /\ u.pc = "post"

-----------------------------------------------------------------------------
(* Properties of failures in a run *)

\* The ids reachable from id along one edge or more
Descendants(id, es) ==
  ReachableFrom({es[j].target : j \in {i \in 1..Len(es) : es[i].source = id}}, es)

\* C13: failure locality. In a run on an acyclic graph whose nodes are all
\* reachable from a root, once the run has settled with a node in error every
\* node that is not a descendant of it has been executed and is success or
\* error, and no execution is started for a node that is already in error.
FailureLocality ==
  /\ [](\A f \in 1..Len(nodes) :
          (Settled /\ Acyclic(edges) /\ AllReachable(nodes, edges)
             /\ nodes[f].status = "error")
            => \A i \in 1..Len(nodes) :
                 nodes[i].id \notin Descendants(nodes[f].id, edges)
                   => (Started(nodes[i].id) /\ nodes[i].status \in Terminal))
  /\ [][\A k \in 1..Len(timers) :
          ExecuteNodeFire(k)
            => \A i \in 1..Len(nodes) :
                 nodes[i].id = timers[k].node => nodes[i].status # "error"]_vars

-----------------------------------------------------------------------------
(* Properties of the input adapter *)

\* C14: adapter rule 1. When the tool of a literature-review node is invoked
\* and the output of its predecessor contains a list of papers, the resolved
\* input is that list (same elements, same order, not text) and the review
\* tool is invoked with exactly those papers.
PapersPassedToReview ==
  \A e \in log :
    (e.type = "invoke" /\ e.tool = "AI Literature Review"
       /\ Truthy(e.predOutput) /\ "papers" \in e.predOutput.keys)
      => /\ e.adapted.kind = "list" /\ e.adapted.list = e.predOutput.papers
         /\ e.payload.kind = "list" /\ e.payload.list = e.predOutput.papers

\* C14 witness: a review invoked with the two papers of a predecessor that is
\* no Source Finder
ReviewInvokedWithPapers ==
  \E e \in log :
    /\ e.type = "invoke" /\ e.tool = "AI Literature Review"
    /\ e.predOutput.papers = <<Paper1, Paper2>>
    /\ e.payload.list = <<Paper1, Paper2>>
    /\ e.parent # "" /\ \E i \in 1..Len(nodes) :
                          nodes[i].id = e.parent
                          /\ nodes[i].toolType = "Reference & Citation Management"

\* C15: adapter rule 2. When the predecessor's output contains a list of papers
\* and the consumer is not a literature-review node, the resolved input is the
\* string of the lines "<title>. <authors> (<year>)", one per paper in list
\* order, joined by newlines, whatever the predecessor's tool type and whatever
\* else the output contains.
PapersFlattened ==
  \A e \in log :
    (e.type = "invoke" /\ e.tool \notin {"Source Finder", "AI Literature Review"}
       /\ Truthy(e.predOutput) /\ "papers" \in e.predOutput.keys)
      => /\ e.adapted.kind = "str"
         /\ e.adapted.str = Join(PaperLines(e.predOutput.papers), "\n")

\* C16: adapter rules 3-7. When the predecessor's output contains no list of
\* papers, then for every predecessor tool type the resolved input is: the
\* claim texts joined by a separator line if there is a list of claims; else
\* the review text; else the generic text; else the output itself if it is a
\* string; else the whole output serialized.
FallbackRules ==
  \A e \in log :
    (e.type = "invoke" /\ e.tool # "Source Finder"
       /\ Truthy(e.predOutput) /\ "papers" \notin e.predOutput.keys)
      => /\ e.adapted.kind = "str"
         /\ e.adapted.str =
              IF "claims" \in e.predOutput.keys
              THEN Join(e.predOutput.claims, "\n---\n")
              ELSE IF "review" \in e.predOutput.keys THEN e.predOutput.review
              ELSE IF "text" \in e.predOutput.keys THEN e.predOutput.text
              ELSE IF e.predOutput.isStr THEN e.predOutput.str
              ELSE Stringify(e.predOutput)

-----------------------------------------------------------------------------
(* Properties of the clipboard and the history *)

\* The two graphs have the same nodes and the same edges
SameGraph(ns, es, g) ==
  /\ Len(ns) = Len(g.nodes) /\ Range(ns) = Range(g.nodes)
  /\ Len(es) = Len(g.edges) /\ Range(es) = Range(g.edges)

\* C17: undo exactness for paste. For every graph and every non-empty copy
\* buffer, right after a paste followed at once by undo the graph has exactly
\* the nodes and the edges it had before the paste.
UndoOfPasteExact ==
  (recent.phase = "undone" /\ recent.action.type = "paste" /\ recent.buffer.nodes # <<>>)
    => SameGraph(nodes, edges, recent.before)

\* C18: paste id freshness. The ids that a paste mints differ from the id of
\* every node in the graph at that moment, from the ids of a paste undone
\* earlier and from each other, so that two pastes of one buffer of N nodes add
\* 2N nodes with 2N distinct ids, none the id of an original.
PasteIdsFresh ==
  (recent.phase = "did" /\ recent.action.type = "paste")
    => LET new == recent.action.nodes
       IN /\ \A i \in 1..Len(new) :
               /\ new[i].id \notin Ids(recent.before.nodes)
               /\ new[i].id \notin Ids(redoAction.nodes)
               /\ \A j \in 1..Len(new) : i # j => new[i].id # new[j].id
          /\ Len(nodes) = Len(recent.before.nodes) + Len(recent.buffer.nodes)
          /\ Cardinality(Ids(nodes)) =
               Cardinality(Ids(recent.before.nodes)) + Len(recent.buffer.nodes)

RedoSymmetry ==
  recent.phase = "redone"
    => (SameGraph(nodes, edges, recent.after) /\ lastAction = recent.action)

\* C21: single-level history. The undo slot holds the most recent recorded cut
\* or paste and nothing older; undo reverses that action, moves it to the redo
\* slot and empties the undo slot, so that an undo right after an undo changes
\* nothing and an action recorded before the most recent one cannot be undone.
SingleLevelHistory ==
  /\ [](recent.phase = "did" => lastAction = recent.action)
  /\ [](recent.phase = "undone"
          => (lastAction = NoAction /\ redoAction = recent.action /\ ~ENABLED Undo))
  /\ [][Undo => /\ lastAction' = NoAction /\ redoAction' = lastAction
                /\ IF lastAction.type = "paste"
                   THEN /\ Range(nodes') \subseteq Range(nodes)
                        /\ Ids(nodes) \ Ids(nodes') \subseteq Ids(lastAction.nodes)
                   ELSE /\ Range(nodes) \subseteq Range(nodes')
                        /\ Range(nodes') \ Range(nodes) \subseteq Range(lastAction.nodes)]_vars

\* C21 witness: a cut and then a paste were recorded and the paste was undone;
\* the undo slot is empty although the cut was never undone
UndoneSecondOfTwo ==
  /\ recent.phase = "undone" /\ recent.action.type = "paste"
  /\ lastAction = NoAction
  /\ recent.buffer.nodes # <<>>
  /\ Ids(recent.buffer.nodes) \cap Ids(nodes) = {}

\* C22: cascading deletion. Deleting the selection, with the Delete key or by
\* a cut, removes exactly the selected nodes and exactly the edges that have a
\* selected node as source or as target; every other node and every other edge
\* stays, unchanged and in its place.
CascadingDeletion ==
  [][(HandleDelete \/ Cut)
       => /\ nodes' = SelectSeq(nodes, LAMBDA n : n.id \notin selection)
          /\ \A i \in 1..Len(edges) :
               (edges[i].source \in selection \/ edges[i].target \in selection)
                 <=> edges[i] \notin Range(edges')
          /\ edges' = SelectSeq(edges, LAMBDA e : e \in Range(edges'))]_vars

\* C22 witness: a cut took one node of a chain of three with the edge that
\* touched it; the other two nodes and the edge between them are left
CutOneOfChain ==
  /\ recent.phase = "did" /\ recent.action.type = "cut"
  /\ Len(recent.action.nodes) = 1
  /\ Len(recent.before.edges) = 2
  /\ Len(nodes) = 2 /\ Len(edges) = 1
  /\ edges[1] \in Range(recent.before.edges)
  /\ {edges[1].source, edges[1].target} = Ids(nodes)

SaveLoadRoundTrip ==
  [][(saved.set /\ OnLoadWorkflow(saved.doc))
       => /\ Len(nodes') = Len(saved.of.nodes)
          /\ \A i \in 1..Len(nodes') :
               /\ nodes'[i].id = saved.of.nodes[i].id
               /\ nodes'[i].toolType = saved.of.nodes[i].toolType
               /\ nodes'[i].config = saved.of.nodes[i].config
               /\ nodes'[i].status = "pending"
               /\ nodes'[i].output = NoOutput
          /\ edges' = saved.of.edges]_vars

\* C24 witness: the saved document was just loaded; at the save some node had
\* succeeded with an output and another was running, and the graph had an edge
LoadedWhatWasSaved ==
  /\ lastOp = Op("load") /\ saved.set
  /\ \E i \in 1..Len(saved.of.nodes) :
       saved.of.nodes[i].status = "success" /\ saved.of.nodes[i].output # NoOutput
  /\ \E i \in 1..Len(saved.of.nodes) : saved.of.nodes[i].status = "running"
  /\ saved.of.edges # <<>>
  /\ Len(nodes) = Len(saved.of.nodes)

\* C25: mutation of a non-existent id is a no-op. When a scheduled execution
\* fires, or an execution in flight marks its node running, looks it up or gets
\* the tool's answer, for a node that was deleted in the meantime, no node is
\* created or altered and no edge changes, and the execution goes on to its
\* next step instead of failing.
MissingNodeNoOp ==
  [][/\ \A k \in 1..Len(timers) :
          (timers[k].node \notin Ids(nodes) /\ ExecuteNodeFire(k))
            => (nodes' = nodes /\ edges' = edges /\ Cardinality(tasks') = Cardinality(tasks) + 1)
     /\ \A t \in tasks :
          (/\ t.bound \notin Ids(nodes)
           /\ \/ ExecuteNodeOnRun(t)
              \/ HandleToolExecution(t)
              \/ \E resp \in UsualResponses(t.tool) : ToolReturns(t, resp))
            => /\ nodes' = nodes /\ edges' = edges
               /\ \E u \in tasks' : u.tid = t.tid /\ u.pc \in {"ui", "post"}]_vars

\* C25 witness: the tool answered for a node deleted while the call was in
\* flight; the other node of the graph is still there
ReturnedForDeletedNode ==
  /\ lastOp = Op("return")
  /\ \E t \in tasks : tasks = {t} /\ t.pc = "post" /\ t.bound # "" /\ t.bound \notin Ids(nodes)
  /\ nodes # <<>>

\* C26: execution writes back to the executed node. Whenever the scheduler
\* executes node X, the callback and the tool that run are X's own, and the
\* status and output that result are written to X and to no other node,
\* whether X was dropped or pasted.
ExecutionWritesBack ==
  /\ \A e \in log : e.type \in {"start", "invoke"} => e.bound = e.node
  /\ \A t \in tasks : t.pc \in {"ui", "fetch"} => t.bound = t.node

\* C27: diamond race. The child guard looks at the child's status and counts
\* no parents: when a node completes, each node at the end of one of its edges
\* is scheduled if and only if that node is not success or error at that
\* moment. So in the diamond D is scheduled by the second parent to complete
\* unless D is already terminal then, and D's tool can be invoked twice in one
\* run.
DiamondRace ==
  [][\A t \in tasks :
       ExecuteNodeChildren(t)
         => \A j \in 1..Len(edges) :
              edges[j].source = t.node
                => LET c == edges[j].target
                       i == FindIndex(nodes, c)
                   IN (\E m \in (Len(timers) + 1)..Len(timers') :
                         timers'[m].node = c /\ timers'[m].parent = t.node)
                        <=> (i # 0 /\ nodes[i].status \notin Terminal)]_vars

\* C27 witness: in the one run of the diamond the tool of D was invoked for
\* the execution that B scheduled and again for the one that C scheduled
DInvokedTwice ==
  \E e1 \in log : \E e2 \in log :
    /\ e1.type = "invoke" /\ e2.type = "invoke"
    /\ e1.node = "SourceFinder_4" /\ e2.node = "SourceFinder_4"
    /\ e1.run = 1 /\ e2.run = 1
    /\ e1.parent = "SourceFinder_2" /\ e2.parent = "SourceFinder_3"

\* C28: terminal statuses are final within a run. While a run is going on, no
\* step of the scheduler changes the status of a node that is success or
\* error; only the end of the run, a stop or a new run may.
TerminalFinal ==
  [][(runningWorkflow /\ UNCHANGED <<runCount, stoppedRuns>>)
       => \A i \in 1..Len(nodes) :
            nodes[i].status \in Terminal
              => (i <= Len(nodes') /\ nodes'[i].status = nodes[i].status)]_vars

\* The ids that no root reaches
Unreached(ns, es) == Ids(ns) \ ReachableFrom(InDegreeZero(ns, es), es)

\* C29: end of run with unreached nodes. In a graph with a root and with nodes
\* that no root reaches, when the run has nothing scheduled or unfinished any
\* more and every reached node is success or error, the scheduler is idle and
\* every unreached node is pending.
UnreachedNodesReset ==
  (/\ Settled
   /\ InDegreeZero(nodes, edges) # {}
   /\ Unreached(nodes, edges) # {}
   /\ \A i \in 1..Len(nodes) :
        nodes[i].id \notin Unreached(nodes, edges) => nodes[i].status \in Terminal)
    => /\ ~runningWorkflow
       /\ \A i \in 1..Len(nodes) :
            nodes[i].id \in Unreached(nodes, edges) => nodes[i].status = "pending"

\* C30: frame of stop(). stop() changes the status of non-terminal nodes only:
\* a node that is success or error right before stop() has the same status
\* right after, and stop() changes no output, no config and no edge.
StopFrame ==
  [][OnStopWorkflow
       => /\ Len(nodes') = Len(nodes)
          /\ \A i \in 1..Len(nodes) :
               /\ nodes[i].status \in Terminal => nodes'[i].status = nodes[i].status
               /\ nodes'[i].id = nodes[i].id
               /\ nodes'[i].output = nodes[i].output
               /\ nodes'[i].config = nodes[i].config
          /\ edges' = edges]_vars

\* C31: idle invariant. In every state in which the scheduler is idle no node
\* has status running, and no step taken while the scheduler is idle starts a
\* tool invocation.
IdleInvariant ==
  /\ [](~runningWorkflow => \A i \in 1..Len(nodes) : nodes[i].status # "running")
  /\ [][~runningWorkflow
          => {e \in log' : e.type = "invoke"} = {e \in log : e.type = "invoke"}]_vars

\* Every node has at most one incoming edge
InDegreeAtMostOne(ns, es) ==
  \A n \in Ids(ns) : Cardinality({j \in 1..Len(es) : es[j].target = n}) <= 1

\* C32: at most once in forests. In a graph in which every node has at most
\* one incoming edge, and with no edit, stop or second run during the run, the
\* tool of a node is invoked at most once per run: when a tool invocation
\* starts, the run has not invoked that node's tool before.
AtMostOnceInForests ==
  [][\A t \in tasks :
       (/\ InDegreeAtMostOne(nodes, edges)
        /\ HandleToolExecution(t)
        /\ \E u \in tasks' : u.tid = t.tid /\ u.pc = "fetch")
         => \A e \in log :
              (e.type = "invoke" /\ e.run = t.run)
                => (e.bound # t.bound /\ e.node # t.node)]_vars

\* C33: input comes from a completed predecessor. Whenever the tool of a node
\* with an incoming edge is invoked in a run, the predecessor chosen for input
\* resolution, the source of the node's first incoming edge, is success or
\* error at that moment.
InputFromCompletedPredecessor ==
  \A e \in log :
    (e.type = "invoke" /\ e.hasPred) => e.predStatus \in Terminal

\* C34: undo exactness for cut. Right after a cut of a non-empty selection
\* followed at once by undo the graph has exactly the nodes and the edges it
\* had before the cut, the edges between a cut node and a node outside the
\* selection included.
UndoOfCutExact ==
  (recent.phase = "undone" /\ recent.action.type = "cut" /\ recent.action.nodes # <<>>)
    => SameGraph(nodes, edges, recent.before)

\* C35: edits during a run do not block it. With nodes deleted at any moment
\* of a run and every tool call returning, a run that is in progress
\* eventually is idle with no node left in status running.
DeletionDoesNotBlock ==
  runningWorkflow
    ~> (~runningWorkflow /\ \A i \in 1..Len(nodes) : nodes[i].status # "running")

\* C36: bounded work on cyclic graphs. On every graph with a cycle that a
\* root reaches, with every timer firing and every tool call returning, a run
\* eventually is idle for good with nothing scheduled and nothing unfinished:
\* it makes finitely many tool invocations.
CyclicRunTerminates ==
  <>[](~runningWorkflow /\ timers = <<>> /\ tasks = {})

\* C37: redo is only available right after undo. A cut or paste done after an
\* undo empties the redo slot: whenever the undo slot holds an action (the one
\* done or redone last), the redo slot is empty, so that redo can only
\* re-apply the action undone last with no cut or paste since.
RedoSlotEmptied ==
  /\ lastAction.type # "none" => redoAction.type = "none"
  /\ recent.phase = "did" => redoAction = NoAction

====
